---- MODULE Spec2Model ----
(***************************************************************************)
(* Model of the RAG summarization backend (src/backend/main.py):           *)
(* the /summarize ingestion handler, the /qa retrieval handler, the        *)
(* startup hook that prepares the main collection, and the vector store    *)
(* and temporary-file system they share.                                   *)
(*                                                                         *)
(* Texts are not modelled character by character.  The normalized text of  *)
(* a document is the span [src, s, e) of its characters; a slice of it is  *)
(* a sub-span.  Distances are integers in tenths (1.0 is 10, 1.2 is 12).   *)
(* Every collaborator call (converter, LLM, embedding model, vector store, *)
(* file system) is one step that either returns or raises.                 *)
(***************************************************************************)
EXTENDS Integers, Sequences, FiniteSets, TLC

VARIABLES started, store, fs, ing, qa, ck, cl

vars == <<started, store, fs, ing, qa, ck, cl>>

--------------------------------------------------------------------------
(* Bounds of the model *)

ShortLen == 500
MidLen == 1200
LongLen == 3100
MaxDeviations == 1
MaxChunkLen == 12
MaxChunkSize == 4
MaxCleanLen == 3
MaxCiteLen == 6

(* Lengths of the cleaned text the converter and clean_text can yield. *)
TextLens == {0, ShortLen, MidLen, LongLen}

(* Distances the store can report, in tenths. *)
Dists == {9, 10, 11, 12, 13}

(* Ingestion requests; each is identified with the uuid4 it draws. *)
Ingests == {"d1", "d2"}

(* Language codes a caller can send. *)
LangCodes == {"en", "id", "fr"}

NONE == "<None>"

--------------------------------------------------------------------------
(* Program constants *)

SUMMARY_CHUNK_SIZE == 3000
SUMMARY_OVERLAP == 200
QA_CHUNK_SIZE == 1000
QA_OVERLAP == 150
T1 == 10
T2 == 12
DOC_N_RESULTS == 2
MAIN_N_RESULTS == 1

MAIN == "main_research_papers"

NOT_FOUND == "Tidak ditemukan."

PROMPT_TEMPLATES ==
  [en |-> [map    |-> [system |-> "Summarize the key points ... in English.",
                       user   |-> "Please summarize this text: {chunk}"],
           reduce |-> [system |-> "You are an expert academic research summarizer. ... in English. ...",
                       user   |-> "Here are the summaries: {combined_summary}"],
           qa     |-> [system |-> "You are a helpful Q&A assistant. ...",
                       user   |-> "Context: {context} Question: {question}"]],
   id |-> [map    |-> [system |-> "Ringkaslah poin-poin utama ... dalam Bahasa Indonesia.",
                       user   |-> "Tolong ringkas teks ini: {chunk}"],
           reduce |-> [system |-> "Anda adalah seorang ahli peringkas riset akademis. ... dalam Bahasa Indonesia. ...",
                       user   |-> "Berikut adalah kumpulan ringkasan: {combined_summary}"],
           qa     |-> [system |-> "Anda adalah asisten Tanya Jawab yang membantu. ...",
                       user   |-> "Konteks: {context} Pertanyaan: {question}"]]]

NO_CONTEXT_MESSAGES ==
  [id |-> "Hmm, saya tidak melihat jawaban yang pas dari data saat ini. ...",
   en |-> "Hmm, I can't seem to find a suitable answer from the current data. ..."]

--------------------------------------------------------------------------
(* Pure helpers *)

Min(a, b) == IF a < b THEN a ELSE b

(* len(text) of a span. *)
TextLen(text) == text.e - text.s

(* text[a:b]: Python slicing clips both ends to the text. *)
Slice(text, a, b) ==
  [src |-> text.src,
   s   |-> text.s + Min(a, TextLen(text)),
   e   |-> text.s + Min(b, TextLen(text))]

(* LoopContinues that also runs for a window starting at the end of text. *)
LoopContinues_Le(text, start) == start <= TextLen(text)

(* Line 98: while start < len(text) *)
LoopContinues(text, start) == start < TextLen(text)

(* NextStart that advances by the whole window and one more. *)
NextStart_Gap(start, chunk_size, overlap) == start + chunk_size + 1

(* Line 99: start += chunk_size - overlap *)
NextStart(start, chunk_size, overlap) == start + chunk_size - overlap

RECURSIVE Windows(_, _, _, _)
Windows(text, start, chunk_size, overlap) ==
  IF LoopContinues(text, start)
    THEN <<Slice(text, start, start + chunk_size)>>
           \o Windows(text, NextStart(start, chunk_size, overlap), chunk_size, overlap)
    ELSE <<>>

chunk_text_by_char(text, chunk_size, overlap) ==
  IF TextLen(text) <= chunk_size THEN <<text>>
  ELSE Windows(text, 0, chunk_size, overlap)

(* sep.join(items), a text being the sequence of its pieces. *)
RECURSIVE Join(_, _)
Join(sep, items) ==
  IF items = <<>> THEN <<>>
  ELSE IF Len(items) = 1 THEN <<items[1]>>
  ELSE <<items[1], sep>> \o Join(sep, Tail(items))

(* dict.get(key, default) *)
DictGet(d, key, default) == IF key \in DOMAIN d THEN d[key] ELSE default

--------------------------------------------------------------------------
(* The language model's reduce output and json.loads *)

KEYS == {"research_objective", "methods", "main_results", "conclusions"}

(* The keys of a JSON object that are missing or hold the empty string. *)
Deviations(o) == (KEYS \ DOMAIN o) \cup {k \in DOMAIN o : o[k] = ""}

AllObjects == UNION {[S -> {"", "text"}] : S \in SUBSET KEYS}

(* The JSON objects the reduce call is taken to return: at most           *)
(* MaxDeviations keys missing or empty, or all of them missing, or all of  *)
(* them empty.                                                             *)
JsonObjects ==
  {o \in AllObjects :
     \/ Cardinality(Deviations(o)) <= MaxDeviations
     \/ DOMAIN o = {}
     \/ (DOMAIN o = KEYS /\ \A k \in KEYS : o[k] = "")}

(* The texts the reduce call can return: something that is not JSON, a    *)
(* JSON value that is not an object, or a JSON object.                     *)
ReduceOutputs ==
  {[kind |-> "garbage", obj |-> <<>>], [kind |-> "array", obj |-> <<>>]}
    \cup {[kind |-> "object", obj |-> o] : o \in JsonObjects}

(* The texts a map call can return. *)
SummaryTexts == {"a", "b"}

(* json.loads raises JSONDecodeError on a text that is not JSON. *)
JsonParses(text) == text.kind # "garbage"

(* The four display fields built from the parsed object. *)
FinalSummary(structured_summary) ==
  [objective   |-> DictGet(structured_summary, "research_objective", NOT_FOUND),
   methods     |-> DictGet(structured_summary, "methods", NOT_FOUND),
   results     |-> DictGet(structured_summary, "main_results", NOT_FOUND),
   conclusions |-> DictGet(structured_summary, "conclusions", NOT_FOUND)]

NoSummary == [objective |-> NONE, methods |-> NONE, results |-> NONE, conclusions |-> NONE]

--------------------------------------------------------------------------
(* State *)

NoCollection == [exists |-> FALSE, entries |-> <<>>]

EmptyCollection == [exists |-> TRUE, entries |-> <<>>]

Collections == Ingests \cup {MAIN}

TmpName(r) == <<"tmp", r>>

NoText(r) == [src |-> r, s |-> 0, e |-> 0]

NoResponse == [status |-> 0, detail |-> NONE, structured_summary |-> NoSummary, document_id |-> NONE]

NoPath == <<>>

IngInit(r, pc0) ==
  [pc |-> pc0, lang_in |-> NONE, lang |-> NONE, tmp_pdf_path |-> NoPath,
   cleaned_text |-> NoText(r), text_chunks |-> <<>>, chunk_summaries |-> <<>>,
   final_summary |-> NoSummary, doc_chunks_for_qa |-> <<>>,
   error |-> NONE, response |-> NoResponse, calls |-> <<>>]

(* ChunkEntries that loses the last chunk. *)
ChunkEntries_DropLast(chunks) ==
  [i \in 1..(Len(chunks) - 1) |-> [id |-> <<"chunk", i - 1>>, document |-> chunks[i]]]

(* The entries collection.add writes: ids chunk_0 .. chunk_(n-1). *)
ChunkEntries(chunks) ==
  [i \in 1..Len(chunks) |-> [id |-> <<"chunk", i - 1>>, document |-> chunks[i]]]

DummyEntry == [id |-> <<"dummy_entry", 1>>, document |-> [src |-> MAIN, s |-> 0, e |-> 56]]

PaperEntry == [id |-> <<"paper", 1>>, document |-> [src |-> MAIN, s |-> 100, e |-> 1100]]

(* One more entry in the log of a request's collaborator calls. *)
Logged(rec, fn, arg, ok, out) ==
  Append(rec.calls, [fn |-> fn, arg |-> arg, ok |-> ok, out |-> out])

(* An exception raised inside the try block: control moves to the handler *)
(* of line 175 with the cause e.                                           *)
Raise(rec, cause) == [rec EXCEPT !.pc = "except", !.error = cause]

(* Both handlers are coroutines of one event loop and every collaborator   *)
(* call in them blocks it: a handler runs from its start to its end, or to *)
(* its one await (file.read(), line 139), without another handler running. *)
(* The loop is free when no handler is between two of its steps; a handler *)
(* that has ended has its response taken by the caller before the next     *)
(* handler runs.                                                            *)
LoopFree ==
  /\ \A r \in Ingests : ing[r].pc \in {"off", "idle", "write", "closed"}
  /\ qa.pc = "idle"

--------------------------------------------------------------------------
(* Startup: lifespan, lines 39-62 *)

(* The main collection after the startup hook.  get_or_create_collection  *)
(* or the add of the placeholder may raise; the hook prints the error and *)
(* the server starts all the same.                                         *)
MainAfterStartup(main, outcome) ==
  IF outcome = "get_fails" THEN main
  ELSE LET got == IF main.exists THEN main ELSE EmptyCollection
       IN  IF Len(got.entries) = 0 /\ outcome = "ok"
             THEN [got EXCEPT !.entries = <<DummyEntry>>]
             ELSE got

Startup ==
  /\ ~started
  /\ \E outcome \in {"ok", "get_fails", "add_fails"} :
       store' = [store EXCEPT ![MAIN] = MainAfterStartup(store[MAIN], outcome)]
  /\ started' = TRUE
  /\ UNCHANGED <<fs, ing, qa, ck, cl>>

--------------------------------------------------------------------------
(* Ingestion: summarize_pdf, lines 131-181 *)

(* Line 134: an unrecognized language code becomes "en". *)
NormalizeLang(lang) == IF lang \notin DOMAIN PROMPT_TEMPLATES THEN "en" ELSE lang

(* Lines 132-136: the request arrives; a file that is no PDF is refused    *)
(* before the try block.                                                    *)
Receive(r) ==
  /\ started
  /\ LoopFree
  /\ ing[r].pc = "idle"
  /\ \E is_pdf \in BOOLEAN, lang \in LangCodes :
       ing' = [ing EXCEPT ![r] =
                 IF ~is_pdf
                   THEN [@ EXCEPT !.pc = "done", !.lang_in = lang,
                                  !.response = [NoResponse EXCEPT !.status = 400,
                                                  !.detail = "Invalid file type. Please upload a PDF."]]
                   ELSE [@ EXCEPT !.pc = "tmpfile", !.lang_in = lang,
                                  !.lang = NormalizeLang(lang)]]
  /\ UNCHANGED <<started, store, fs, qa, ck, cl>>

(* Line 138: NamedTemporaryFile(delete=False) creates the file. *)
OpenTemp(r) ==
  /\ ing[r].pc = "tmpfile"
  /\ \/ /\ fs' = fs \cup {TmpName(r)}
        /\ ing' = [ing EXCEPT ![r] = [@ EXCEPT !.pc = "write"]]
     \/ /\ fs' = fs
        /\ ing' = [ing EXCEPT ![r] = Raise(@, "tempfile")]
  /\ UNCHANGED <<started, store, qa, ck, cl>>

(* Line 139: tmp.write(await file.read()); tmp_pdf_path = tmp.name.  The   *)
(* path is assigned only after the read and the write have returned.       *)
WrittenUpload(rec, r, ok) ==
  IF ok THEN [rec EXCEPT !.pc = "convert", !.tmp_pdf_path = TmpName(r)]
  ELSE Raise(rec, "upload")

WriteUpload(r) ==
  /\ LoopFree
  /\ ing[r].pc = "write"
  /\ \E ok \in BOOLEAN : ing' = [ing EXCEPT ![r] = WrittenUpload(@, r, ok)]
  /\ UNCHANGED <<started, store, fs, qa, ck, cl>>

(* Lines 140-145: convert, clean, the emptiness check and the large-window *)
(* chunking.  n is the length of clean_text's result.                      *)
Converted(rec, r, ok, n) ==
  LET cleaned_text == [src |-> r, s |-> 0, e |-> n]
      logged == [rec EXCEPT !.calls = Logged(rec, "convert", <<>>, ok, <<>>)]
  IN  IF ~ok THEN Raise(logged, "convert")
      ELSE IF n = 0 THEN Raise(logged, "Failed to extract meaningful text from PDF.")
      ELSE [logged EXCEPT !.pc = "map",
                          !.cleaned_text = cleaned_text,
                          !.text_chunks = chunk_text_by_char(cleaned_text, SUMMARY_CHUNK_SIZE, SUMMARY_OVERLAP)]

Convert(r) ==
  /\ ing[r].pc = "convert"
  /\ \E ok \in BOOLEAN, n \in TextLens :
       /\ (~ok => n = 0)
       /\ ing' = [ing EXCEPT ![r] = Converted(@, r, ok, n)]
  /\ UNCHANGED <<started, store, fs, qa, ck, cl>>

(* MapPending that stops the loop one chunk early. *)
MapPending_OffByOne(rec) == Len(rec.chunk_summaries) + 1 < Len(rec.text_chunks)

(* Line 147: the loop has a next chunk to summarize. *)
MapPending(rec) == Len(rec.chunk_summaries) < Len(rec.text_chunks)

(* Mapped that stays in the loop when the call raises, so that the chunk   *)
(* is sent again.                                                           *)
Mapped_Retry(rec, ok, out) ==
  LET chunk == rec.text_chunks[Len(rec.chunk_summaries) + 1]
      map_messages == [kind |-> "map",
                       system |-> PROMPT_TEMPLATES[rec.lang].map.system,
                       user |-> PROMPT_TEMPLATES[rec.lang].map.user,
                       content |-> chunk]
      logged == [rec EXCEPT !.calls = Logged(rec, "llm", map_messages, ok, out)]
  IN  IF ok THEN [logged EXCEPT !.chunk_summaries = Append(@, out)]
      ELSE logged

(* Lines 147-151: one map call, for the next chunk in order. *)
Mapped(rec, ok, out) ==
  LET chunk == rec.text_chunks[Len(rec.chunk_summaries) + 1]
      map_messages == [kind |-> "map",
                       system |-> PROMPT_TEMPLATES[rec.lang].map.system,
                       user |-> PROMPT_TEMPLATES[rec.lang].map.user,
                       content |-> chunk]
      logged == [rec EXCEPT !.calls = Logged(rec, "llm", map_messages, ok, out)]
  IN  IF ok THEN [logged EXCEPT !.chunk_summaries = Append(@, out)]
      ELSE Raise(logged, "llm")

MapCall(r) ==
  /\ ing[r].pc = "map"
  /\ MapPending(ing[r])
  /\ \E ok \in BOOLEAN, out \in SummaryTexts :
       /\ (~ok => out = "a")
       /\ ing' = [ing EXCEPT ![r] = Mapped(@, ok, out)]
  /\ UNCHANGED <<started, store, fs, qa, ck, cl>>

(* Line 153 *)
CombinedSummary(chunk_summaries) == Join("\n\n", chunk_summaries)

(* OnParseFailure that recovers with an all-sentinel summary instead of    *)
(* failing the request.                                                     *)
OnParseFailure_Fallback(rec) ==
  [rec EXCEPT !.pc = "embed",
              !.final_summary = FinalSummary(<<>>),
              !.doc_chunks_for_qa = chunk_text_by_char(rec.cleaned_text, QA_CHUNK_SIZE, QA_OVERLAP)]

(* Lines 161-162: a reduce output that is not JSON fails the request. *)
OnParseFailure(rec) == Raise(rec, "Failed to parse summary from LLM.")

(* Lines 153-165: the reduce call, json.loads, the display fields and the  *)
(* small-window chunking.  A text that is not JSON raises inside the inner *)
(* try and becomes the HTTPException of line 162; a JSON value that is no  *)
(* object has no get and raises AttributeError.  Both reach line 175.      *)
Reduced(rec, ok, llm_output_text) ==
  LET reduce_messages == [kind |-> "reduce",
                          system |-> PROMPT_TEMPLATES[rec.lang].reduce.system,
                          user |-> PROMPT_TEMPLATES[rec.lang].reduce.user,
                          content |-> CombinedSummary(rec.chunk_summaries)]
      logged == [rec EXCEPT !.calls = Logged(rec, "llm", reduce_messages, ok, llm_output_text)]
  IN  IF ~ok THEN Raise(logged, "llm")
      ELSE IF ~JsonParses(llm_output_text)
        THEN OnParseFailure(logged)
      ELSE IF llm_output_text.kind # "object"
        THEN Raise(logged, "AttributeError")
      ELSE [logged EXCEPT !.pc = "embed",
                          !.final_summary = FinalSummary(llm_output_text.obj),
                          !.doc_chunks_for_qa =
                             chunk_text_by_char(rec.cleaned_text, QA_CHUNK_SIZE, QA_OVERLAP)]

ReduceCall(r) ==
  /\ ing[r].pc = "map"
  /\ ~MapPending(ing[r])
  /\ \E ok \in BOOLEAN, out \in ReduceOutputs :
       /\ (~ok => out.kind = "garbage")
       /\ ing' = [ing EXCEPT ![r] = Reduced(@, ok, out)]
  /\ UNCHANGED <<started, store, fs, qa, ck, cl>>

(* Line 168: embed_documents, one vector per chunk, in order. *)
Embedded(rec, ok) ==
  LET logged == [rec EXCEPT !.calls = Logged(rec, "embed_documents", rec.doc_chunks_for_qa, ok, <<>>)]
  IN  IF ok THEN [logged EXCEPT !.pc = "create"] ELSE Raise(logged, "embed")

EmbedDocuments(r) ==
  /\ ing[r].pc = "embed"
  /\ \E ok \in BOOLEAN : ing' = [ing EXCEPT ![r] = Embedded(@, ok)]
  /\ UNCHANGED <<started, store, fs, qa, ck, cl>>

(* DocumentId that hands every request the same id. *)
DocumentId_Shared(r) == "d1"

(* Line 136: document_id = str(uuid.uuid4()); a request's id is its own. *)
DocumentId(r) == r

(* Line 170: create_collection(name=document_id) raises when the store     *)
(* fails or the name is taken.                                              *)
CreateCollection(r) ==
  /\ ing[r].pc = "create"
  /\ \E ok \in BOOLEAN :
       LET created == ok /\ ~store[DocumentId(r)].exists
           logged == [ing[r] EXCEPT !.calls = Logged(ing[r], "create_collection", DocumentId(r), created, <<>>)]
       IN  /\ store' = IF created THEN [store EXCEPT ![DocumentId(r)] = EmptyCollection] ELSE store
           /\ ing' = [ing EXCEPT ![r] =
                        IF created THEN [logged EXCEPT !.pc = "add"] ELSE Raise(logged, "create")]
  /\ UNCHANGED <<started, fs, qa, ck, cl>>

(* Lines 171-174: collection.add of every chunk, then the response.  A     *)
(* failing add may have written the first k entries, k < n.                 *)
AddChunks(r) ==
  /\ ing[r].pc = "add"
  /\ LET entries == ChunkEntries(ing[r].doc_chunks_for_qa)
     IN  \/ /\ store' = [store EXCEPT ![DocumentId(r)].entries = @ \o entries]
            /\ ing' = [ing EXCEPT ![r] =
                         [@ EXCEPT !.pc = "finally",
                                   !.calls = Logged(ing[r], "add", DocumentId(r), TRUE, <<>>),
                                   !.response = [NoResponse EXCEPT !.status = 200,
                                                   !.structured_summary = ing[r].final_summary,
                                                   !.document_id = DocumentId(r)]]]
         \/ \E k \in 0..(Len(entries) - 1) :
              /\ store' = [store EXCEPT ![DocumentId(r)].entries = @ \o SubSeq(entries, 1, k)]
              /\ ing' = [ing EXCEPT ![r] =
                           Raise([@ EXCEPT !.calls = Logged(ing[r], "add", DocumentId(r), FALSE, <<>>)], "add")]
  /\ UNCHANGED <<started, fs, qa, ck, cl>>

(* DeleteCollection that removes the main collection as well. *)
DeleteCollection_Main(st, name, ok) ==
  IF ok /\ st[name].exists THEN [st EXCEPT ![name] = NoCollection, ![MAIN] = NoCollection]
  ELSE [st EXCEPT ![MAIN] = NoCollection]

(* DeleteCollection that never removes anything. *)
DeleteCollection_Keep(st, name, ok) == st

(* Line 177: delete_collection(name) removes the collection; it raises     *)
(* when the collection does not exist or the store fails.                   *)
DeleteCollection(st, name, ok) ==
  IF ok /\ st[name].exists THEN [st EXCEPT ![name] = NoCollection] ELSE st

(* ErrorResponse that reports the failure of the delete when it raised. *)
ErrorResponse_DeleteWins(cause, delete_ok) ==
  [NoResponse EXCEPT !.status = 500,
                     !.detail = IF delete_ok THEN cause ELSE "delete_collection"]

(* Line 179: the response of a failed request: a 500 whose detail is the   *)
(* cause e of the handler; the outcome of the delete has no part in it.    *)
ErrorResponse(cause, delete_ok) ==
  [NoResponse EXCEPT !.status = 500, !.detail = cause]

(* Lines 175-179: the handler of every exception of the try block: the     *)
(* delete is attempted, whatever it raises is swallowed, and the response   *)
(* is a 500 carrying the cause.                                             *)
Except(r) ==
  /\ ing[r].pc = "except"
  /\ \E ok \in BOOLEAN :
       LET delete_ok == ok /\ store[DocumentId(r)].exists
       IN  /\ store' = DeleteCollection(store, DocumentId(r), ok)
           /\ ing' = [ing EXCEPT ![r] =
                        [@ EXCEPT !.pc = "finally",
                                  !.calls = Logged(ing[r], "delete_collection", DocumentId(r),
                                                   delete_ok, <<>>),
                                  !.response = ErrorResponse(ing[r].error, delete_ok)]]
  /\ UNCHANGED <<started, fs, qa, ck, cl>>

(* Line 181: the files left after the finally clause. *)
FilesAfterFinally(files, tmp_pdf_path) ==
  IF tmp_pdf_path # NoPath /\ tmp_pdf_path \in files THEN files \ {tmp_pdf_path} ELSE files

(* Lines 180-181: the finally clause; the request ends. *)
Finally(r) ==
  /\ ing[r].pc = "finally"
  /\ fs' = FilesAfterFinally(fs, ing[r].tmp_pdf_path)
  /\ ing' = [ing EXCEPT ![r] = [@ EXCEPT !.pc = "done"]]
  /\ UNCHANGED <<started, store, qa, ck, cl>>

(* The caller has the response; the handler's frame is gone and the        *)
(* document id is never drawn again.  What stays is what the world knows:   *)
(* the document's text and the status and document id of the response.      *)
Close(r) ==
  /\ ing[r].pc = "done"
  /\ ing' = [ing EXCEPT ![r] =
               [IngInit(r, "closed") EXCEPT
                  !.cleaned_text = ing[r].cleaned_text,
                  !.response = [NoResponse EXCEPT !.status = ing[r].response.status,
                                                  !.document_id = ing[r].response.document_id]]]
  /\ UNCHANGED <<started, store, fs, qa, ck, cl>>

--------------------------------------------------------------------------
(* Question answering: question_answering, lines 183-245 *)

(* Document ids a caller can send: none, the empty string, the id of an    *)
(* ingestion request, or an id no request ever drew.                        *)
DocIdInputs == {NONE, ""} \cup Ingests \cup {"unknown"}

SEP == [src |-> "\n\n", s |-> 0, e |-> 2]

NoDistance == -1

QAInit ==
  [pc |-> "idle", document_id |-> NONE, lang |-> NONE,
   context_text |-> <<>>, found_relevant_context |-> FALSE,
   t1 |-> "none", t2 |-> "none", d1 |-> NoDistance, d2 |-> NoDistance,
   response |-> [status |-> 0, answer |-> NONE], calls |-> <<>>]

(* Sequences of n distinct indices of a collection's entries. *)
Picks(m, n) == {f \in [1..n -> 1..m] : \A i, j \in 1..n : i # j => f[i] # f[j]}

(* Nondecreasing sequences of n distances. *)
Ranked(n) == {d \in [1..n -> Dists] : \A i \in 1..n : \A j \in 1..n : i < j => d[i] <= d[j]}

(* What collection.query(query_embeddings=[v], n_results=k) can return:    *)
(* one list of documents and one of distances for the one query vector,    *)
(* the min(k, count) nearest entries, nearest first.  Which entries are    *)
(* nearest, and how near, is the embedding model's business.               *)
QueryResults(coll, k) ==
  LET m == Len(coll.entries)
      n == Min(k, m)
  IN  {[documents |-> <<[i \in 1..n |-> coll.entries[f[i]].document]>>,
        distances |-> <<d>>] : f \in Picks(m, n), d \in Ranked(n)}

(* Line 195: if request.document_id *)
Truthy(document_id) == document_id \notin {NONE, ""}

(* Line 201: results['distances'][0][0] on an empty list of distances     *)
(* raises IndexError.                                                      *)
Tier1IndexError(results) == results.documents # <<>> /\ results.distances[1] = <<>>

(* Admit1 with the comparison made non-strict. *)
Admit1_Le(results) == results.documents # <<>> /\ results.distances[1][1] <= T1

(* Line 201 *)
Admit1(results) == results.documents # <<>> /\ results.distances[1][1] < T1

(* Line 217 *)
Admit2(results) == results.documents[1] # <<>> /\ results.distances[1][1] < T2

(* Lines 202 and 218 *)
ContextText(results) == Join(SEP, results.documents[1])

(* NoContextAnswer without the lookup by language code. *)
NoContextAnswer_En(lang) == NO_CONTEXT_MESSAGES["en"]

(* Line 240 *)
NoContextAnswer(lang) == DictGet(NO_CONTEXT_MESSAGES, lang, NO_CONTEXT_MESSAGES["en"])

(* Line 229 *)
QAPrompts(lang) == DictGet(PROMPT_TEMPLATES, lang, PROMPT_TEMPLATES["en"])

QALogged(fn, arg, ok) == Append(qa.calls, [fn |-> fn, arg |-> arg, ok |-> ok])

(* Lines 186-195: the request arrives and the question is embedded; an     *)
(* exception here reaches line 243.                                         *)
QAStart ==
  /\ started
  /\ LoopFree
  /\ qa.pc = "idle"
  /\ \E document_id \in DocIdInputs, lang \in LangCodes, ok \in BOOLEAN :
       qa' = [qa EXCEPT !.document_id = document_id, !.lang = lang,
                        !.calls = QALogged("embed_query", <<>>, ok),
                        !.pc = IF ~ok THEN "done"
                               ELSE IF Truthy(document_id) THEN "tier1" ELSE "tier2",
                        !.response = IF ok THEN @ ELSE [status |-> 500, answer |-> "embed"]]
  /\ UNCHANGED <<started, store, fs, ing, ck, cl>>

(* Tier1Caught that takes an empty result for an admitted one. *)
Tier1Caught_AdmitsEmpty(rec, why) ==
  IF why = "empty"
    THEN [rec EXCEPT !.pc = "generate", !.t1 = why, !.found_relevant_context = TRUE]
    ELSE [rec EXCEPT !.pc = "tier2", !.t1 = why]

(* Tier1Caught with the exception left to reach the handler of line 243. *)
Tier1Caught_Propagates(rec, why) ==
  [rec EXCEPT !.pc = "done", !.t1 = why, !.response = [status |-> 500, answer |-> why]]

(* Lines 207-211: the handler of the tier-1 try block swallows the        *)
(* exception and the request goes on to tier 2.                            *)
Tier1Caught(rec, why) == [rec EXCEPT !.pc = "tier2", !.t1 = why]

(* Lines 196-208: tier 1, the document-scoped collection. *)
Tier1 ==
  /\ qa.pc = "tier1"
  /\ LET name == qa.document_id
         present == name \in Collections /\ store[name].exists
     IN  \/ /\ ~present
            /\ qa' = [Tier1Caught(qa, "missing") EXCEPT
                        !.calls = QALogged("get_collection", name, FALSE)]
         \/ /\ present
            /\ qa' = [Tier1Caught(qa, "error") EXCEPT
                        !.calls = QALogged("query", name, FALSE)]
         \/ /\ present
            /\ \E results \in QueryResults(store[name], DOC_N_RESULTS) :
                 LET logged == [qa EXCEPT !.calls = QALogged("query", name, TRUE)]
                 IN  qa' = IF Tier1IndexError(results) THEN Tier1Caught(logged, "empty")
                           ELSE IF Admit1(results)
                             THEN [logged EXCEPT !.pc = "generate", !.t1 = "admitted",
                                                 !.d1 = results.distances[1][1],
                                                 !.context_text = ContextText(results),
                                                 !.found_relevant_context = TRUE]
                           ELSE [logged EXCEPT !.pc = "tier2", !.t1 = "rejected",
                                               !.d1 = results.distances[1][1]]
  /\ UNCHANGED <<started, store, fs, ing, ck, cl>>

(* NoContext that lets an error of the main collection reach the handler   *)
(* of line 243.                                                             *)
NoContext_Raises(rec, why) ==
  [rec EXCEPT !.pc = "done", !.t2 = why,
              !.response = IF why = "rejected"
                             THEN [status |-> 200, answer |-> NoContextAnswer(rec.lang)]
                             ELSE [status |-> 500, answer |-> why]]

(* Lines 234-241: no context was found; the fixed message is the answer.   *)
NoContext(rec, why) ==
  [rec EXCEPT !.pc = "done", !.t2 = why,
              !.response = [status |-> 200, answer |-> NoContextAnswer(rec.lang)]]

(* Lines 211-224 and 234-241: tier 2, the main collection. *)
Tier2 ==
  /\ qa.pc = "tier2"
  /\ \/ /\ ~store[MAIN].exists
        /\ qa' = [NoContext(qa, "missing") EXCEPT
                    !.calls = QALogged("get_collection", MAIN, FALSE)]
     \/ /\ store[MAIN].exists
        /\ qa' = [NoContext(qa, "error") EXCEPT
                    !.calls = QALogged("query", MAIN, FALSE)]
     \/ /\ store[MAIN].exists
        /\ \E results \in QueryResults(store[MAIN], MAIN_N_RESULTS) :
             LET logged == [qa EXCEPT !.calls = QALogged("query", MAIN, TRUE)]
                 d == IF results.distances[1] = <<>> THEN NoDistance ELSE results.distances[1][1]
             IN  qa' = IF Admit2(results)
                         THEN [logged EXCEPT !.pc = "generate", !.t2 = "admitted", !.d2 = d,
                                             !.context_text = ContextText(results),
                                             !.found_relevant_context = TRUE]
                       ELSE [NoContext(logged, "rejected") EXCEPT !.d2 = d]
  /\ UNCHANGED <<started, store, fs, ing, ck, cl>>

(* Lines 227-233 and 243-245: the answer is generated from the context.    *)
Generate ==
  /\ qa.pc = "generate"
  /\ \E ok \in BOOLEAN :
       LET qa_messages == [kind |-> "qa",
                           system |-> QAPrompts(qa.lang).qa.system,
                           user |-> QAPrompts(qa.lang).qa.user,
                           content |-> qa.context_text]
       IN  qa' = [qa EXCEPT !.pc = "done",
                            !.calls = QALogged("llm", qa_messages, ok),
                            !.response = IF ok THEN [status |-> 200, answer |-> "generated"]
                                         ELSE [status |-> 500, answer |-> "llm"]]
  /\ UNCHANGED <<started, store, fs, ing, ck, cl>>

(* The caller has the answer; the next question can be asked. *)
QAClose ==
  /\ qa.pc = "done"
  /\ qa' = QAInit
  /\ UNCHANGED <<started, store, fs, ing, ck, cl>>

--------------------------------------------------------------------------
(* The chunker run on its own: chunk_text_by_char, lines 95-100 *)

(* No chunker call and no cleaning call is being followed. *)
CkIdle == [pc |-> "idle", text |-> NoText("t"), chunk_size |-> 0, overlap |-> 0,
           start |-> 0, chunks |-> <<>>]

ClIdle == [pc |-> "idle", text |-> <<>>, once |-> <<>>, twice |-> <<>>]

(* The calls followed: every text of up to MaxChunkLen characters and      *)
(* every 0 <= overlap < chunk_size <= MaxChunkSize.                         *)
CkCalls ==
  {[pc |-> "call", text |-> [src |-> "t", s |-> 0, e |-> n], chunk_size |-> size,
    overlap |-> overlap, start |-> 0, chunks |-> <<>>] :
     n \in 0..MaxChunkLen, size \in 1..MaxChunkSize, overlap \in 0..(MaxChunkSize - 1)}

(* Lines 96-97: a text that fits is returned whole; otherwise the loop     *)
(* starts at 0 with no chunks.                                              *)
ChunkCall ==
  /\ ck.pc = "call"
  /\ ck' = IF TextLen(ck.text) <= ck.chunk_size
             THEN [ck EXCEPT !.pc = "returned", !.chunks = <<ck.text>>]
             ELSE [ck EXCEPT !.pc = "loop", !.start = 0, !.chunks = <<>>]
  /\ UNCHANGED <<started, store, fs, ing, qa, cl>>

(* Lines 98-99: one iteration of the loop. *)
ChunkLoop ==
  /\ ck.pc = "loop"
  /\ LoopContinues(ck.text, ck.start)
  /\ LET end == ck.start + ck.chunk_size
     IN  ck' = [ck EXCEPT !.chunks = Append(@, Slice(ck.text, ck.start, end)),
                          !.start = NextStart(ck.start, ck.chunk_size, ck.overlap)]
  /\ UNCHANGED <<started, store, fs, ing, qa, cl>>

(* Line 100: the loop has ended and the chunks are returned. *)
ChunkReturn ==
  /\ ck.pc = "loop"
  /\ ~LoopContinues(ck.text, ck.start)
  /\ ck' = [ck EXCEPT !.pc = "returned"]
  /\ UNCHANGED <<started, store, fs, ing, qa, cl>>

--------------------------------------------------------------------------
(* Specification *)

(* Before startup the main collection is absent, empty, or was populated   *)
(* out of band.                                                             *)
MainAtBoot == {NoCollection, EmptyCollection, [exists |-> TRUE, entries |-> <<PaperEntry>>]}

(* One upload (d1) and any number of questions are served; d2 stays off. *)
Init ==
  /\ started = FALSE
  /\ \E main \in MainAtBoot :
       store = [c \in Collections |-> IF c = MAIN THEN main ELSE NoCollection]
  /\ fs = {}
  /\ ing = [r \in Ingests |-> IngInit(r, IF r = "d1" THEN "idle" ELSE "off")]
  /\ qa = QAInit
  /\ ck = CkIdle
  /\ cl = ClIdle

Next ==
  \/ Startup
  \/ \E r \in Ingests :
       \/ Receive(r)
       \/ OpenTemp(r)
       \/ WriteUpload(r)
       \/ Convert(r)
       \/ MapCall(r)
       \/ ReduceCall(r)
       \/ EmbedDocuments(r)
       \/ CreateCollection(r)
       \/ AddChunks(r)
       \/ Except(r)
       \/ Finally(r)
       \/ Close(r)
  \/ QAStart
  \/ Tier1
  \/ Tier2
  \/ Generate
  \/ QAClose

Spec == Init /\ [][Next]_vars

(* The server at rest: not started, an empty store, no request. *)
ServerAtRest ==
  /\ started = FALSE
  /\ store = [c \in Collections |-> NoCollection]
  /\ fs = {}
  /\ ing = [r \in Ingests |-> IngInit(r, "off")]
  /\ qa = QAInit

(* The chunker alone, on every call of CkCalls. *)
InitChunk ==
  /\ ServerAtRest
  /\ ck \in {c \in CkCalls : c.overlap < c.chunk_size}
  /\ cl = ClIdle

NextChunk ==
  \/ ChunkCall
  \/ ChunkLoop
  \/ ChunkReturn

SpecChunk == InitChunk /\ [][NextChunk]_vars

(* The chunker is sequential code: a step that can be taken is taken. *)
SpecChunkFair == SpecChunk /\ WF_vars(NextChunk)

(* Two uploads of different documents and no question: the second upload   *)
(* can arrive and run while the first waits for its body (line 139), and   *)
(* the other way round.                                                     *)
InitConc ==
  /\ started = FALSE
  /\ \E main \in MainAtBoot :
       store = [c \in Collections |-> IF c = MAIN THEN main ELSE NoCollection]
  /\ fs = {}
  /\ ing = [r \in Ingests |-> IngInit(r, "idle")]
  /\ qa = QAInit
  /\ ck = CkIdle
  /\ cl = ClIdle

NextConc ==
  \/ Startup
  \/ \E r \in Ingests :
       \/ Receive(r)
       \/ OpenTemp(r)
       \/ WriteUpload(r)
       \/ Convert(r)
       \/ MapCall(r)
       \/ ReduceCall(r)
       \/ EmbedDocuments(r)
       \/ CreateCollection(r)
       \/ AddChunks(r)
       \/ Except(r)
       \/ Finally(r)
       \/ Close(r)

SpecConc == InitConc /\ [][NextConc]_vars

--------------------------------------------------------------------------
(* Structural cleaning: clean_text, lines 92-93, on texts of characters *)

(* The characters of the texts cleaned here: the ones the four patterns    *)
(* tell apart, and a letter for everything else.                            *)
Alphabet == {"|", "[", "]", "1", "#", " ", "\n", "a"}

(* \s, \d and . (no DOTALL flag) over Alphabet. *)
Whitespace == {" ", "\n"}
Digit == {"1"}
Dot == Alphabet \ {"\n"}

(* The first position from j on that holds no character of S, or           *)
(* Len(t) + 1: where a greedy S* started at j stops.                        *)
RunEnd(t, j, S) ==
  CHOOSE k \in j..(Len(t) + 1) :
    /\ k = Len(t) + 1 \/ t[k] \notin S
    /\ \A m \in j..(k - 1) : t[m] \in S

(* The last position of lo..hi that holds c, or 0. *)
LastOf(t, lo, hi, c) ==
  LET at == {m \in lo..hi : t[m] = c}
  IN  IF at = {} THEN 0 ELSE CHOOSE m \in at : \A n \in at : n <= m

(* re.sub(r'\|.*\|', '', text) from position i on: a pipe matches up to    *)
(* the last pipe of its line.                                               *)
RECURSIVE SubTables(_, _)
SubTables(t, i) ==
  IF i > Len(t) THEN <<>>
  ELSE LET last == IF t[i] = "|" THEN LastOf(t, i + 1, RunEnd(t, i + 1, Dot) - 1, "|") ELSE 0
       IN  IF last > 0 THEN SubTables(t, last + 1)
           ELSE <<t[i]>> \o SubTables(t, i + 1)

(* re.sub(r'\[\d+\]', '', text) from position i on. *)
RECURSIVE SubCitations(_, _)
SubCitations(t, i) ==
  IF i > Len(t) THEN <<>>
  ELSE LET close == IF t[i] = "[" THEN RunEnd(t, i + 1, Digit) ELSE 0
       IN  IF close > i + 1 /\ close <= Len(t) /\ t[close] = "]"
             THEN SubCitations(t, close + 1)
             ELSE <<t[i]>> \o SubCitations(t, i + 1)

(* re.sub(r'#+\s.*', '', text) from position i on: a run of #, one         *)
(* whitespace character (a newline too), and the rest of that line.        *)
RECURSIVE SubHeaders(_, _)
SubHeaders(t, i) ==
  IF i > Len(t) THEN <<>>
  ELSE LET space == IF t[i] = "#" THEN RunEnd(t, i, {"#"}) ELSE 0
       IN  IF space > 0 /\ space <= Len(t) /\ t[space] \in Whitespace
             THEN SubHeaders(t, RunEnd(t, space + 1, Dot))
             ELSE <<t[i]>> \o SubHeaders(t, i + 1)

(* re.sub(r'\n\s*\n', '\n', text) from position i on: a newline and the    *)
(* whitespace after it, up to the last newline of that whitespace.         *)
RECURSIVE SubBlankLines(_, _)
SubBlankLines(t, i) ==
  IF i > Len(t) THEN <<>>
  ELSE LET last == IF t[i] = "\n"
                     THEN LastOf(t, i + 1, RunEnd(t, i + 1, Whitespace) - 1, "\n")
                     ELSE 0
       IN  IF last > 0 THEN <<"\n">> \o SubBlankLines(t, last + 1)
           ELSE <<t[i]>> \o SubBlankLines(t, i + 1)

(* text.strip() *)
Strip(t) ==
  LET first == RunEnd(t, 1, Whitespace)
      kept == {m \in 1..Len(t) : t[m] \notin Whitespace}
      last == IF kept = {} THEN 0 ELSE CHOOSE m \in kept : \A n \in kept : n <= m
  IN  IF kept = {} THEN <<>> ELSE SubSeq(t, first, last)

(* Lines 92-93: the four substitutions in their order, then strip. *)
clean_text(text) ==
  Strip(SubBlankLines(SubHeaders(SubCitations(SubTables(text, 1), 1), 1), 1))

(* The texts of at most n characters of S. *)
TextsOver(S, n) == UNION {[1..k -> S] : k \in 0..n}

(* The texts cleaned: every short text, and every longer one made of       *)
(* brackets and digits.                                                     *)
CleanInputs == TextsOver(Alphabet, MaxCleanLen) \cup TextsOver({"[", "1", "]"}, MaxCiteLen)

(* clean_text(text) is called. *)
CleanOnce ==
  /\ cl.pc = "call"
  /\ cl' = [cl EXCEPT !.pc = "once", !.once = clean_text(cl.text)]
  /\ UNCHANGED <<started, store, fs, ing, qa, ck>>

(* clean_text is called on what it returned. *)
CleanTwice ==
  /\ cl.pc = "once"
  /\ cl' = [cl EXCEPT !.pc = "twice", !.twice = clean_text(cl.once)]
  /\ UNCHANGED <<started, store, fs, ing, qa, ck>>

(* clean_text alone, on every text of CleanInputs. *)
InitClean ==
  /\ ServerAtRest
  /\ ck = CkIdle
  /\ cl \in {[pc |-> "call", text |-> t, once |-> <<>>, twice |-> <<>>] : t \in CleanInputs}

NextClean ==
  \/ CleanOnce
  \/ CleanTwice

SpecClean == InitClean /\ [][NextClean]_vars

--------------------------------------------------------------------------
(* Properties of question answering *)

(* The language-model calls the question has made so far. *)
QALlmCalls == {i \in DOMAIN qa.calls : qa.calls[i].fn = "llm"}

(* The main collection was looked up or queried for the question. *)
MainConsulted ==
  \E i \in DOMAIN qa.calls :
    qa.calls[i].fn \in {"get_collection", "query"} /\ qa.calls[i].arg = MAIN

(* text is a non-empty join of documents that all come from src. *)
ContextFrom(text, src) ==
  /\ text # <<>>
  /\ \A i \in DOMAIN text : IF i % 2 = 0 THEN text[i] = SEP ELSE text[i].src = src

(* The answer is being generated, or was, from a context taken from src:   *)
(* once the request has ended its one language-model call carried that     *)
(* context.                                                                 *)
AnsweredFrom(src) ==
  /\ qa.pc \in {"generate", "done"}
  /\ qa.found_relevant_context
  /\ ContextFrom(qa.context_text, src)
  /\ qa.pc = "done" =>
       /\ Cardinality(QALlmCalls) = 1
       /\ \A i \in QALlmCalls : qa.calls[i].arg.content = qa.context_text

(* C1: when the document's collection exists and reports the nearest       *)
(* distance d1: d1 < 1.0 has the answer generated from the tier-1 context  *)
(* and the main collection is not consulted, whatever it holds; otherwise, *)
(* the main collection reporting d2, d2 < 1.2 has the answer generated     *)
(* from the tier-2 context; otherwise the fixed no-answer message is       *)
(* returned and no language-model call is made.  1.0 and 1.2 themselves    *)
(* are not admitted.                                                        *)
C1_TierSelection ==
  (Truthy(qa.document_id) /\ qa.d1 # NoDistance) =>
     /\ qa.d1 < 10 => (AnsweredFrom(qa.document_id) /\ ~MainConsulted)
     /\ qa.d1 >= 10 => (qa.pc = "tier2" \/ MainConsulted)
     /\ (qa.d1 >= 10 /\ qa.d2 # NoDistance /\ qa.d2 < 12) => AnsweredFrom(MAIN)
     /\ (qa.d1 >= 10 /\ qa.d2 # NoDistance /\ qa.d2 >= 12) =>
          /\ qa.pc = "done"
          /\ qa.response.status = 200
          /\ qa.response.answer \in {NO_CONTEXT_MESSAGES["en"], NO_CONTEXT_MESSAGES["id"]}
          /\ QALlmCalls = {}

(* Tier 1 reported exactly 1.0, was not admitted, and tier 2 answered. *)
C1_Witness ==
  /\ qa.d1 = 10 /\ qa.d2 = 11 /\ qa.pc = "done"
  /\ qa.response.answer = "generated"

(* C2: whenever neither tier admits, with or without a document id, the    *)
(* response is the fixed message of the requested language (the            *)
(* Indonesian one for id, the English one for en and for any other code)   *)
(* and the request makes no language-model call.                            *)
C2_NoContextMessage ==
  (qa.t1 # "admitted" /\ qa.t2 \in {"rejected", "missing", "error"}) =>
     /\ qa.pc = "done"
     /\ qa.response.status = 200
     /\ qa.response.answer =
          IF qa.lang = "id"
            THEN "Hmm, saya tidak melihat jawaban yang pas dari data saat ini. ..."
            ELSE "Hmm, I can't seem to find a suitable answer from the current data. ..."
     /\ QALlmCalls = {}

(* No document id, the main collection's nearest entry at 1.3, and a       *)
(* language code that is neither en nor id.                                 *)
C2_Witness ==
  /\ qa.pc = "done" /\ qa.document_id = NONE /\ qa.d2 = 13 /\ qa.lang = "fr"
  /\ qa.response.answer = NO_CONTEXT_MESSAGES["en"]

--------------------------------------------------------------------------
(* Properties of ingestion *)

(* The positions of the calls to fn in the log of request r. *)
Calls(r, fn) == {i \in DOMAIN ing[r].calls : ing[r].calls[i].fn = fn}

(* Request r has ended with an error response. *)
Failed(r) == ing[r].pc = "done" /\ ing[r].response.status = 500

(* The delete of the rollback was attempted once and itself raised. *)
DeleteRaised(r) ==
  /\ Cardinality(Calls(r, "delete_collection")) = 1
  /\ \A i \in Calls(r, "delete_collection") : ~ing[r].calls[i].ok

(* Request r created its collection. *)
Created(r) == \E i \in Calls(r, "create_collection") : ing[r].calls[i].ok

(* C3 as stated: after a failed ingestion request, whether it failed       *)
(* before or after vectorization, no collection of its document id exists. *)
C3_RollbackAlwaysDeletes ==
  \A r \in Ingests : Failed(r) => ~store[r].exists

(* C3 as amended: a request that fails before its collection was created   *)
(* (the reduce phase and everything earlier) leaves no collection; a       *)
(* request that fails after it has the delete attempted exactly once, and  *)
(* leaves a collection only when that delete itself raised.                 *)
C3_Rollback ==
  \A r \in Ingests :
    Failed(r) =>
      /\ Cardinality(Calls(r, "delete_collection")) = 1
      /\ ~Created(r) => ~store[r].exists
      /\ store[r].exists => (Created(r) /\ DeleteRaised(r))

(* The add failed after the collection was created, the delete went        *)
(* through, and the request has ended with no collection left.              *)
C3_Witness ==
  \E r \in Ingests :
    /\ Failed(r) /\ ing[r].error = "add" /\ Created(r)
    /\ ~DeleteRaised(r) /\ ~store[r].exists

(* The small-window chunks of the document of request r. *)
RetrievalChunks(r) == chunk_text_by_char(ing[r].cleaned_text, 1000, 150)

(* entries holds the first k retrieval chunks of r under chunk_0 ..        *)
FirstChunks(entries, r, k) ==
  /\ Len(entries) = k
  /\ \A i \in 1..k : /\ entries[i].id = <<"chunk", i - 1>>
                     /\ entries[i].document = RetrievalChunks(r)[i]

FullyPopulated(r) == FirstChunks(store[r].entries, r, Len(RetrievalChunks(r)))

PartlyPopulated(r) ==
  \E k \in 0..(Len(RetrievalChunks(r)) - 1) : FirstChunks(store[r].entries, r, k)

(* C4 as stated: in every reachable state a collection that exists holds   *)
(* exactly the retrieval chunks of its document.                            *)
C4_ExistsImpliesPopulated ==
  \A r \in Ingests : store[r].exists => FullyPopulated(r)

(* C4 as amended: a collection that exists holds exactly the retrieval     *)
(* chunks of its document once its request has added them; before that it  *)
(* is empty (between create and add), and it holds fewer than all of the   *)
(* chunks, in order, only while the failed add awaits its rollback or      *)
(* after a rollback whose delete raised.                                    *)
C4_Population ==
  \A r \in Ingests :
    store[r].exists =>
      \/ ing[r].pc = "add" /\ store[r].entries = <<>>
      \/ ing[r].pc = "except" /\ ing[r].error = "add" /\ PartlyPopulated(r)
      \/ /\ ing[r].pc \in {"finally", "done"} /\ ing[r].response.status = 500
         /\ DeleteRaised(r) /\ PartlyPopulated(r)
      \/ ing[r].pc = "closed" /\ ing[r].response.status = 500 /\ PartlyPopulated(r)
      \/ /\ ing[r].pc \in {"finally", "done", "closed"} /\ ing[r].response.status = 200
         /\ FullyPopulated(r)

(* A request has succeeded and its collection holds its four chunks. *)
C4_Witness ==
  \E r \in Ingests :
    /\ ing[r].pc = "done" /\ ing[r].response.status = 200
    /\ store[r].exists /\ Len(store[r].entries) = 4

(* C5: after an ingestion request has ended, whatever its exit path, the   *)
(* temporary file it created no longer exists.                              *)
C5_TempFileRemoved ==
  \A r \in Ingests : ing[r].pc \in {"done", "closed"} => TmpName(r) \notin fs

--------------------------------------------------------------------------
(* C6: a document-scoped collection that is missing, or whose lookup or    *)
(* query raises, never fails the question: the request goes on to the main *)
(* collection in the state a request without document id enters it in (no  *)
(* context, nothing found, no response yet), and if it ends in an error    *)
(* that error is the language model's.                                      *)
C6_Tier1FailureFallsBack ==
  qa.t1 \in {"missing", "error"} =>
     /\ qa.pc \in {"tier2", "generate", "done"}
     /\ qa.pc = "tier2" =>
          /\ qa.context_text = <<>> /\ ~qa.found_relevant_context
          /\ qa.d1 = NoDistance /\ qa.response = QAInit.response
     /\ qa.pc # "tier2" => MainConsulted
     /\ qa.response.status = 500 => qa.response.answer = "llm"

(* The tier-1 query raised and the main collection answered. *)
C6_Witness ==
  /\ qa.t1 = "error" /\ qa.t2 = "admitted" /\ qa.pc = "done"
  /\ qa.response = [status |-> 200, answer |-> "generated"]

--------------------------------------------------------------------------
(* The language-model calls of request r, in the order made. *)
LlmCalls(r) == SelectSeq(ing[r].calls, LAMBDA c : c.fn = "llm")

(* C7: the language-model calls of an ingestion request are, in order, one *)
(* map call per large-window chunk in chunk order and then at most one     *)
(* reduce call; the reduce call is made only after every map call has      *)
(* returned, over the map outputs joined in chunk order; a failed call is  *)
(* the last one.  A text no longer than the chunk size has one map call    *)
(* before its reduce call.                                                  *)
C7_MapThenReduce ==
  \A r \in Ingests :
    LET calls == LlmCalls(r)
        n == Len(ing[r].text_chunks)
    IN  /\ Len(calls) <= n + 1
        /\ \A i \in DOMAIN calls :
             /\ i <= n =>
                  /\ calls[i].arg.kind = "map"
                  /\ calls[i].arg.content = ing[r].text_chunks[i]
             /\ i = n + 1 =>
                  /\ calls[i].arg.kind = "reduce"
                  /\ Len(calls[i].arg.content) = 2 * n - 1
                  /\ \A j \in 1..n : calls[i].arg.content[2 * j - 1] = calls[j].out
                  /\ \A j \in 1..(n - 1) : calls[i].arg.content[2 * j] = "\n\n"
             /\ i < Len(calls) => calls[i].ok
             /\ ~calls[i].ok => (ing[r].pc \in {"except", "finally", "done"} /\ ing[r].error = "llm")
        /\ ing[r].pc \in {"embed", "create", "add"} =>
             /\ Len(calls) = n + 1
             /\ n >= 1
             /\ TextLen(ing[r].cleaned_text) <= 3000 => n = 1

(* Two chunks were summarized differently and the reduce call returned. *)
C7_Witness ==
  \E r \in Ingests :
    /\ ing[r].pc = "embed" /\ Len(ing[r].text_chunks) = 2
    /\ ing[r].chunk_summaries = <<"a", "b">>

--------------------------------------------------------------------------
(* The reduce call of request r returned a text that is not JSON. *)
ReduceUnparsed(r) ==
  \E i \in Calls(r, "llm") :
    /\ ing[r].calls[i].arg.kind = "reduce" /\ ing[r].calls[i].ok
    /\ ing[r].calls[i].out.kind = "garbage"

(* C8: a reduce output that does not parse as JSON fails the request: the  *)
(* reduce call is the last language-model call (no retry), no embedding,   *)
(* create or add is attempted, and the response is an error with no        *)
(* summary and no document id.                                              *)
C8_ParseFailureFails ==
  \A r \in Ingests :
    ReduceUnparsed(r) =>
      /\ ing[r].pc \in {"except", "finally", "done"}
      /\ ing[r].error = "Failed to parse summary from LLM."
      /\ Cardinality({i \in Calls(r, "llm") : ing[r].calls[i].arg.kind = "reduce"}) = 1
      /\ Calls(r, "embed_documents") = {}
      /\ Calls(r, "create_collection") = {}
      /\ Calls(r, "add") = {}
      /\ ~store[r].exists
      /\ ing[r].pc = "done" =>
           /\ ing[r].response.status = 500
           /\ ing[r].response.structured_summary = NoSummary
           /\ ing[r].response.document_id = NONE

(* A request whose reduce output was not JSON has ended. *)
C8_Witness ==
  \E r \in Ingests :
    /\ ReduceUnparsed(r) /\ ing[r].pc = "done"
    /\ ing[r].response.detail = "Failed to parse summary from LLM."

--------------------------------------------------------------------------
(* The JSON objects the reduce call of request r returned (one at most). *)
ReducedObjects(r) ==
  {ing[r].calls[i].out.obj : i \in {j \in Calls(r, "llm") :
       /\ ing[r].calls[j].arg.kind = "reduce" /\ ing[r].calls[j].ok
       /\ ing[r].calls[j].out.kind = "object"}}

(* The display field of each key. *)
FieldOf(summary, key) ==
  CASE key = "research_objective" -> summary.objective
    [] key = "methods" -> summary.methods
    [] key = "main_results" -> summary.results
    [] key = "conclusions" -> summary.conclusions

(* C9 as stated: for each of the four keys of the parsed object, a         *)
(* non-empty string is the field's value, and a missing key or an empty    *)
(* string gives the field the "not found" sentinel.                         *)
C9_MissingOrEmptyIsSentinel ==
  \A r \in Ingests : \A o \in ReducedObjects(r) : \A k \in KEYS :
    /\ (k \in DOMAIN o /\ o[k] # "") =>
          (FieldOf(ing[r].final_summary, k) = o[k] /\ o[k] # "Tidak ditemukan.")
    /\ (k \notin DOMAIN o \/ o[k] = "") =>
          FieldOf(ing[r].final_summary, k) = "Tidak ditemukan."

(* C10 as stated, the sentinel's half: a request whose language code is    *)
(* not id (en, or an unrecognized code that behaves as en) has English     *)
(* prompts and an English sentinel, so none of its fields holds the        *)
(* Indonesian one.                                                          *)
C10_SentinelFollowsLanguage ==
  \A r \in Ingests :
    (ing[r].lang_in \in LangCodes \ {"id"} /\ ing[r].final_summary # NoSummary) =>
       /\ \A i \in Calls(r, "llm") :
            ing[r].calls[i].arg.system \in
              {PROMPT_TEMPLATES["en"].map.system, PROMPT_TEMPLATES["en"].reduce.system}
       /\ \A k \in KEYS : FieldOf(ing[r].final_summary, k) # "Tidak ditemukan."

--------------------------------------------------------------------------
(* Properties of the chunker *)

(* ceil(a / b) for a >= 0 and b > 0. *)
Ceil(a, b) == (a + b - 1) \div b

(* C11 as stated: the chunker returns 1 chunk when len(text) <= size and   *)
(* ceil((len(text) - overlap) / (size - overlap)) chunks otherwise.         *)
C11_ClaimedCount ==
  ck.pc = "returned" =>
    Len(ck.chunks) =
      IF TextLen(ck.text) <= ck.chunk_size THEN 1
      ELSE Ceil(TextLen(ck.text) - ck.overlap, ck.chunk_size - ck.overlap)

(* C11 as amended: the chunker returns 1 chunk when len(text) <= size and  *)
(* ceil(len(text) / (size - overlap)) chunks otherwise: a window is        *)
(* emitted for every start below len(text), also when the window before    *)
(* it already reached the end of the text.                                  *)
C11_ChunkCount ==
  ck.pc = "returned" =>
    Len(ck.chunks) =
      IF TextLen(ck.text) <= ck.chunk_size THEN 1
      ELSE Ceil(TextLen(ck.text), ck.chunk_size - ck.overlap)

(* 7 characters, size 4, overlap 1: windows at 0, 3 and 6, where the       *)
(* stated formula gives 2.                                                  *)
C11_Witness ==
  /\ ck.pc = "returned" /\ TextLen(ck.text) = 7 /\ ck.chunk_size = 4 /\ ck.overlap = 1
  /\ Len(ck.chunks) = 3

(* Every position of the text lies in the span of some chunk. *)
Covered(text, chunks) ==
  \A p \in text.s..(text.e - 1) :
    \E i \in DOMAIN chunks : chunks[i].s <= p /\ p < chunks[i].e

(* The chunks are taken in order: starts do not decrease. *)
InOrder(chunks) ==
  \A i \in DOMAIN chunks : \A j \in DOMAIN chunks : i < j => chunks[i].s < chunks[j].s

(* What holds of a chunker call at every step: the loop has run once per   *)
(* chunk and at most len(text) times, no chunk is longer than size, and    *)
(* what is returned covers the text, in order, and is what                 *)
(* chunk_text_by_char gives.                                                *)
ChunkerSound ==
  /\ \A i \in DOMAIN ck.chunks : TextLen(ck.chunks[i]) <= ck.chunk_size
  /\ ck.pc = "loop" =>
       /\ ck.start = Len(ck.chunks) * (ck.chunk_size - ck.overlap)
       /\ Len(ck.chunks) <= TextLen(ck.text)
  /\ ck.pc = "returned" =>
       /\ Covered(ck.text, ck.chunks)
       /\ InOrder(ck.chunks)
       /\ ck.chunks = chunk_text_by_char(ck.text, ck.chunk_size, ck.overlap)

(* C12: for every text and every 0 <= overlap < size the chunker           *)
(* terminates, the spans of its chunks taken in order cover every position *)
(* of the text, and no chunk is longer than size.                           *)
C12_TerminatesAndCovers == []ChunkerSound /\ <>(ck.pc = "returned")

(* A call that needed several overlapping windows has returned. *)
C12_Witness ==
  /\ ck.pc = "returned" /\ TextLen(ck.text) = 12 /\ ck.chunk_size = 4 /\ ck.overlap = 3
  /\ Len(ck.chunks) = 12

--------------------------------------------------------------------------
(* Properties of the failure path of an ingestion request *)

(* The cause the handler of line 175 receives when collaborator call fn    *)
(* raises.                                                                  *)
CauseOf(fn) ==
  CASE fn = "convert" -> "convert"
    [] fn = "llm" -> "llm"
    [] fn = "embed_documents" -> "embed"
    [] fn = "create_collection" -> "create"
    [] fn = "add" -> "add"
    [] OTHER -> NONE

(* The causes raised inside the handler's own code, with no collaborator   *)
(* call failing.                                                            *)
OwnCauses ==
  {"tempfile", "upload", "Failed to extract meaningful text from PDF.",
   "Failed to parse summary from LLM.", "AttributeError"}

(* The calls of request r before its last one. *)
Earlier(r) == 1..(Len(ing[r].calls) - 1)

(* C13: whenever an ingestion request fails, a delete of the collection    *)
(* named by its document id is attempted, once and as the last call before *)
(* the error response exists; a failure of that delete never shows in the  *)
(* response; and the response is a 500 that carries the original cause:    *)
(* that of the collaborator call that raised, or the handler's own.        *)
C13_RollbackKeepsCause ==
  \A r \in Ingests :
    /\ ing[r].pc = "except" => ing[r].response = NoResponse
    /\ (ing[r].pc \in {"finally", "done"} /\ ing[r].response.status = 500) =>
         LET calls == ing[r].calls
             last == calls[Len(calls)]
         IN  /\ Len(calls) >= 1
             /\ last.fn = "delete_collection" /\ last.arg = DocumentId(r)
             /\ Cardinality(Calls(r, "delete_collection")) = 1
             /\ ing[r].response.detail # NONE
             /\ ing[r].response.document_id = NONE
             /\ IF \E i \in Earlier(r) : ~calls[i].ok
                  THEN \A i \in Earlier(r) :
                         ~calls[i].ok => ing[r].response.detail = CauseOf(calls[i].fn)
                  ELSE ing[r].response.detail \in OwnCauses

(* The embedding raised, the delete of the never-created collection raised *)
(* too, and the response carries the embedding failure.                     *)
C13_Witness ==
  \E r \in Ingests :
    /\ Failed(r) /\ DeleteRaised(r)
    /\ \E i \in Calls(r, "embed_documents") : ~ing[r].calls[i].ok
    /\ ing[r].response.detail = "embed"

--------------------------------------------------------------------------
(* Properties of the collaborator calls of one request *)

(* The positions of the QA request's calls of fn. *)
QACalls(fn) == {i \in DOMAIN qa.calls : qa.calls[i].fn = fn}

(* The positions of the QA request's calls of fn on collection name. *)
QACallsOn(fn, name) == {i \in QACalls(fn) : qa.calls[i].arg = name}

(* The collections a QA request can name. *)
QANames == (DocIdInputs \ {NONE}) \cup {MAIN}

(* The positions of request r's LLM calls of a kind ("map" or "reduce"). *)
LlmCallsOf(r, kind) == {i \in Calls(r, "llm") : ing[r].calls[i].arg.kind = kind}

(* C14: no collaborator call is retried.  A QA request embeds the question *)
(* once, before any query, looks up and queries each collection at most    *)
(* once and calls the LLM at most once.  An ingestion request converts,    *)
(* embeds, creates and adds at most once each, sends each map chunk and    *)
(* the reduce step to the LLM at most once, and after a call that failed   *)
(* makes no call but the delete of the rollback.                            *)
C14_NoRetry ==
  /\ Cardinality(QACalls("embed_query")) <= 1
  /\ (QACalls("get_collection") \cup QACalls("query") \cup QACalls("llm")) # {} =>
       /\ Cardinality(QACalls("embed_query")) = 1
       /\ qa.calls[1].fn = "embed_query" /\ qa.calls[1].ok
  /\ \A name \in QANames :
       /\ Cardinality(QACallsOn("get_collection", name)) <= 1
       /\ Cardinality(QACallsOn("query", name)) <= 1
  /\ Cardinality(QACalls("get_collection")) <= 2
  /\ Cardinality(QACalls("query")) <= 2
  /\ Cardinality(QACalls("llm")) <= 1
  /\ \A r \in Ingests :
       LET calls == ing[r].calls
       IN  /\ \A fn \in {"convert", "embed_documents", "create_collection", "add",
                         "delete_collection"} :
                Cardinality(Calls(r, fn)) <= 1
           /\ Cardinality(LlmCallsOf(r, "reduce")) <= 1
           /\ \A i \in LlmCallsOf(r, "map") : \A j \in LlmCallsOf(r, "map") :
                i # j => calls[i].arg.content # calls[j].arg.content
           /\ \A i \in DOMAIN calls :
                (~calls[i].ok /\ calls[i].fn # "delete_collection") =>
                   /\ i >= Len(calls) - 1
                   /\ i = Len(calls) - 1 => calls[Len(calls)].fn = "delete_collection"

(* The map call of the second chunk raised and the request has ended: the  *)
(* first chunk was sent once, the second once, and nothing was sent again. *)
C14_Witness ==
  \E r \in Ingests :
    /\ Failed(r)
    /\ Cardinality(LlmCallsOf(r, "map")) = 2 /\ LlmCallsOf(r, "reduce") = {}
    /\ \E i \in LlmCallsOf(r, "map") : ~ing[r].calls[i].ok

--------------------------------------------------------------------------
(* Properties of concurrent ingestion requests *)

(* What holds of the collections of two requests in every state: each was  *)
(* created at most once and written at most once, by calls of its owner,   *)
(* and holds only chunks of its owner's document under chunk_0 ..          *)
OwnCollections ==
  \A r \in Ingests :
    /\ \A i \in DOMAIN ing[r].calls :
         ing[r].calls[i].fn \in {"create_collection", "add", "delete_collection"} =>
           ing[r].calls[i].arg = r
    /\ Cardinality(Calls(r, "create_collection")) <= 1
    /\ Cardinality(Calls(r, "add")) <= 1
    /\ \A i \in DOMAIN store[r].entries :
         /\ store[r].entries[i].document.src = r
         /\ store[r].entries[i].id = <<"chunk", i - 1>>
         /\ store[r].entries[i].document = RetrievalChunks(r)[i]

(* A step changes the collection of r only when it is a step of request r  *)
(* and of no other request.                                                 *)
OwnerWrites ==
  \A r \in Ingests :
    store'[r] # store[r] =>
      /\ ing'[r] # ing[r]
      /\ \A q \in Ingests \ {r} : ing'[q] = ing[q]

(* C15: under every interleaving of two ingestion requests of different    *)
(* documents, each collection is created and written once, by its owning   *)
(* request, holds only chunks of its own document, and no step of one      *)
(* request, its rollback included, deletes or changes the collection of    *)
(* the other.                                                               *)
C15_Isolation == []OwnCollections /\ [][OwnerWrites]_vars

(* d1 succeeded and its collection is in place; d2 then created its own    *)
(* collection, failed in the add and rolled back; d1's collection is       *)
(* untouched.                                                               *)
C15_Witness ==
  /\ ing["d1"].pc = "closed" /\ ing["d1"].response.status = 200
  /\ store["d1"].exists /\ FullyPopulated("d1") /\ Len(store["d1"].entries) >= 2
  /\ Failed("d2") /\ Created("d2") /\ ~DeleteRaised("d2") /\ ~store["d2"].exists
  /\ ing["d2"].cleaned_text # ing["d1"].cleaned_text

--------------------------------------------------------------------------
(* Properties of the main collection *)

(* The placeholder entries of a collection. *)
Placeholders(c) == {i \in DOMAIN c.entries : c.entries[i] = DummyEntry}

(* C16: once startup has completed the main collection exists and holds at *)
(* least one entry, of which at most one is the placeholder.                *)
C16_MainQueryable ==
  started =>
    /\ store[MAIN].exists
    /\ Len(store[MAIN].entries) >= 1
    /\ Cardinality(Placeholders(store[MAIN])) <= 1


(* A step of a request leaves the main collection as it was, and a step of *)
(* a QA request leaves every collection as it was.                          *)
MainUntouched ==
  /\ started => store'[MAIN] = store[MAIN]
  /\ qa' # qa => store' = store

(* C17: no ingestion request and no QA request deletes, creates or writes  *)
(* the main collection, failed ingestions whose rollback runs included,    *)
(* and QA requests change no collection at all.                             *)
C17_MainNeverWritten == [][MainUntouched]_vars

(* An ingestion created its collection, failed and rolled it back, and the *)
(* main collection still holds what was put there out of band.              *)
C17_Witness ==
  \E r \in Ingests :
    /\ Failed(r) /\ Created(r) /\ ~store[r].exists
    /\ started /\ store[MAIN] = [exists |-> TRUE, entries |-> <<PaperEntry>>]

--------------------------------------------------------------------------
(* Properties of structural cleaning *)

(* C18: cleaning is idempotent: clean_text(clean_text(t)) = clean_text(t)  *)
(* for every text t.                                                        *)
C18_CleanIdempotent ==
  cl.pc = "twice" => cl.twice = cl.once

--------------------------------------------------------------------------
(* Properties of a returned document id *)

(* The response of request r carries its document id. *)
Returned(r) == ing[r].response.document_id = DocumentId(r)

(* C19: a response carries a document id only when the collection of that  *)
(* id exists and holds exactly the retrieval chunks chunk_0 ..             *)
(* chunk_(n-1) of the document, and a QA request that names such an id     *)
(* finds the collection and a first result in it: its tier 1 never ends    *)
(* on a missing collection or an empty result.                              *)
C19_ReturnedIdIsPopulated ==
  \A r \in Ingests :
    Returned(r) =>
      /\ ing[r].response.status = 200
      /\ store[r].exists
      /\ FullyPopulated(r)
      /\ Len(store[r].entries) >= 1
      /\ qa.document_id = DocumentId(r) => qa.t1 \notin {"missing", "empty"}

(* A question names the id a finished upload returned, and tier 1 got its  *)
(* results from the two chunks of that document.                            *)
C19_Witness ==
  \E r \in Ingests :
    /\ ing[r].pc = "closed" /\ Returned(r)
    /\ Len(store[r].entries) = 2
    /\ qa.document_id = DocumentId(r) /\ qa.t1 \in {"admitted", "rejected"}

--------------------------------------------------------------------------
(* Properties of a failing main collection *)

(* The lookup or the query of the main collection raised. *)
MainRaised ==
  \E i \in DOMAIN qa.calls :
    /\ qa.calls[i].fn \in {"get_collection", "query"}
    /\ qa.calls[i].arg = MAIN
    /\ ~qa.calls[i].ok

(* C20: when the lookup or the query of the main collection raises, in a   *)
(* request whose tier 1 did not admit, the request does not fail: that     *)
(* call is its last, no generation call is made, and the response is a     *)
(* normal answer holding the fixed no-context message of the language.     *)
C20_MainErrorSwallowed ==
  MainRaised =>
    /\ qa.t1 # "admitted" /\ ~qa.found_relevant_context
    /\ ~qa.calls[Len(qa.calls)].ok
    /\ QACalls("llm") = {}
    /\ qa.pc = "done"
    /\ qa.response = [status |-> 200,
                      answer |-> NO_CONTEXT_MESSAGES[IF qa.lang \in DOMAIN NO_CONTEXT_MESSAGES
                                                       THEN qa.lang ELSE "en"]]

(* Tier 1 rejected the chunks of the named document, the query of the main *)
(* collection raised, and the answer is the Indonesian message.            *)
C20_Witness ==
  /\ qa.document_id \in Ingests /\ qa.t1 = "rejected" /\ qa.lang = "id"
  /\ \E i \in QACallsOn("query", MAIN) : ~qa.calls[i].ok
  /\ qa.response = [status |-> 200, answer |-> NO_CONTEXT_MESSAGES["id"]]

--------------------------------------------------------------------------
(* Properties of an empty tier-1 result *)

(* The query of the named document's collection returned, and the          *)
(* collection holds no entry: the result has no document and no distance.  *)
EmptyTier1 ==
  /\ qa.document_id \in Ingests
  /\ store[qa.document_id].exists /\ store[qa.document_id].entries = <<>>
  /\ \E i \in QACallsOn("query", qa.document_id) : qa.calls[i].ok

(* C21: when the tier-1 query of an existing document collection returns   *)
(* an empty result, tier 1 is not admitted and takes no context from the   *)
(* document, the request does not fail on it, and it goes on to the main   *)
(* collection: what it answers from is the main collection, and an error   *)
(* it ends in is the language model's.                                      *)
C21_EmptyTier1FallsThrough ==
  EmptyTier1 =>
    /\ qa.t1 = "empty" /\ qa.d1 = NoDistance
    /\ qa.pc \in {"tier2", "generate", "done"}
    /\ qa.pc = "tier2" => (~qa.found_relevant_context /\ qa.response = QAInit.response)
    /\ qa.pc # "tier2" => MainConsulted
    /\ qa.found_relevant_context => (qa.t2 = "admitted" /\ ContextFrom(qa.context_text, MAIN))
    /\ qa.response.status = 500 =>
         \E i \in QACalls("llm") : ~qa.calls[i].ok

(* The collection of the named document was left empty by a failed upload, *)
(* its query returned nothing, and the main collection answered.            *)
C21_Witness ==
  /\ EmptyTier1 /\ qa.pc = "done" /\ qa.t2 = "admitted"
  /\ qa.response = [status |-> 200, answer |-> "generated"]
  /\ Cardinality(QACalls("query")) = 2

====
